---- MODULE Spec2Model ----
(***************************************************************************)
(* Model of the abstract paginated, selectable content-list view-model     *)
(* FileSystemLogic (src/FileSystemLogic.ts) together with the backend its  *)
(* abstract request methods talk to.                                       *)
(*                                                                         *)
(* Every public asynchronous operation is split where the code awaits:     *)
(* the Call* action is the synchronous prefix up to the await (it puts a   *)
(* request in flight), Resolve/Reject is the continuation after the await. *)
(* JavaScript runs each of these pieces to completion, so each is one      *)
(* atomic action.  The backend handles a request and answers it at the     *)
(* moment the request resolves.  Names are single characters, kept as      *)
(* character codes so that toLowerCase and the comparison of names are     *)
(* computed.                                                               *)
(*                                                                         *)
(* FileSystemLogic has further runs over the same actions: a backend with  *)
(* two full pages (SpecLong), one more call (SpecExtra) and a backend that *)
(* settles every request (SpecSettle, weak fairness of the continuations). *)
(*                                                                         *)
(* The three other components have runs of their own: CompoFactory         *)
(* (src/Factory.tsx, SpecFactory), the scroll effect of JenericComponent   *)
(* (SpecScroll) and the render and the scale handlers of FieldItem         *)
(* (src/unnamed/part_000, SpecField).  In the runs of one component the    *)
(* variables of the others keep their idle values.                         *)
(***************************************************************************)
EXTENDS Integers, Sequences, FiniteSets, Bags

\* ------------------------------------------------------------- bounds
PageSize == 2       \* items the backend returns per page
MaxInFlight == 2    \* requests in flight at once
MaxOps == 3         \* calls that change the state or issue a request, per run

Ids == {0, 1, 2}                    \* ids of the items the backend holds at the start
ArgIds == {0, 1}                    \* ids passed to the operations
None == -1                          \* an omitted (undefined) id argument
RenameNames == {68}                 \* "D"
Dirs == {1}                         \* target directories of move
Errors == {"E1"}                    \* rejection values
NoError == "null"
SortInputs == { [key |-> "name", dir |-> 1], [key |-> "date", dir |-> 1] }

VARIABLES
    content,            \* Seq of [id, name, selected]
    totalCount,
    nextId,
    sort,               \* [key, dir]
    state,              \* [loading, error]  initial / sort load
    paginationState,    \* [loading, error]
    actionState,        \* [loading, error]  rename / remove / move
    selectedAll,
    removedElements,    \* Seq of items; <<>> stands for undefined
    inflight,           \* bag of the requests awaiting resolution
    srv,                \* the backend's items, Seq of [id, name] in id order
    ops,                \* calls so far that changed the state or issued a request
    last                \* the step just taken and the program state before it

\* CompoFactory (src/Factory.tsx)
VARIABLES
    factories,          \* the map type -> factory
    registered,         \* the factories the constructor registered, in order
    props,              \* the argument of the latest component(props) call
    element,            \* what that call returned
    created             \* number of create() calls made on factories so far

\* JenericComponent (src/FileSystemLogic.ts, lines 609-700), mounted
VARIABLES
    withPagination,     \* prop
    onPaginationSet,    \* whether the prop onPagination was passed
    loadingFlag,        \* getPaginationState().loading as it is now
    closureLoading,     \* loadingState?.loading inside the scrollHandler in use
    armed,              \* the debounce timer of the scrollHandler in use is running
    staleTimers,        \* bag: closure loading of replaced scrollHandlers whose
                        \* timer is still running
    distance,           \* scrollHeight - (scrollTop + clientHeight)
    invoked             \* calls of onPagination made by scrollHandlers so far

\* FieldItem (src/unnamed/part_000)
VARIABLES
    field,              \* props.field of the latest render: [type, scale]
    fragment,           \* the visualizations that render returned, in order
    fieldRenders,       \* renders so far
    handler,            \* the handler of the latest render that ran last
    fired               \* the callbacks of props that handler called, in order

logicVars == <<content, totalCount, nextId, sort, state, paginationState,
               actionState, selectedAll, removedElements, inflight, srv, ops, last>>

factoryVars == <<factories, registered, props, element, created>>

scrollVars == <<withPagination, onPaginationSet, loadingFlag, closureLoading,
                armed, staleTimers, distance, invoked>>

fieldVars == <<field, fragment, fieldRenders, handler, fired>>

\* the variables of the components other than FileSystemLogic
uiVars == <<factoryVars, scrollVars, fieldVars>>

vars == <<logicVars, uiVars>>

\* ------------------------------------------------------------- helpers
Min(a, b) == IF a < b THEN a ELSE b

RECURSIVE SelectSeq2(_, _)
\* Array.prototype.filter with a predicate given as the set of kept indices
SelectSeq2(s, keep) ==
    IF s = <<>> THEN <<>>
    ELSE LET n == Len(s)
             front == SelectSeq2(SubSeq(s, 1, n - 1), keep)
         IN  IF n \in keep THEN Append(front, s[n]) ELSE front

IdsOf(s) == [i \in 1 .. Len(s) |-> s[i].id]
Includes(ids, x) == \E i \in 1 .. Len(ids) : ids[i] = x

\* index of the first element with the id, 0 when there is none (findIndex = -1)
findIndex(cont, id) ==
    IF \E i \in 1 .. Len(cont) : cont[i].id = id
    THEN CHOOSE i \in 1 .. Len(cont) :
            cont[i].id = id /\ \A j \in 1 .. (i - 1) : cont[j].id # id
    ELSE 0

checkProp(c) == IF c \in 65 .. 90 THEN c + 32 ELSE c

asc(a, b) ==
    IF checkProp(a.name) > checkProp(b.name) THEN 1
    ELSE IF checkProp(a.name) < checkProp(b.name) THEN -1 ELSE 0

desc(a, b) ==
    IF checkProp(a.name) < checkProp(b.name) THEN 1
    ELSE IF checkProp(a.name) > checkProp(b.name) THEN -1 ELSE 0

Compare(a, b, srt) == IF srt.dir = 1 THEN asc(a, b) ELSE desc(a, b)

\* x placed behind every element that does not compare greater than it
InsertSorted(s, x, srt) ==
    LET k == Cardinality({i \in 1 .. Len(s) :
                 \A j \in 1 .. i : Compare(s[j], x, srt) <= 0})
    IN  SubSeq(s, 1, k) \o <<x>> \o SubSeq(s, k + 1, Len(s))

RECURSIVE sortContent(_, _)
\* [...content].sort(cmp) on the name field; Array.prototype.sort is stable
sortContent(cont, srt) ==
    IF cont = <<>> THEN <<>>
    ELSE InsertSorted(sortContent(SubSeq(cont, 1, Len(cont) - 1), srt),
                      cont[Len(cont)], srt)

getAllSelectedIds(cont) ==
    IdsOf(SelectSeq2(cont, {i \in 1 .. Len(cont) : cont[i].selected}))

getAllUnselectedIds(cont) ==
    IdsOf(SelectSeq2(cont, {i \in 1 .. Len(cont) : ~cont[i].selected}))

\* mutant: the select-all flag does not invert the list
getSelectedIds_NoInverse(cont, selAll) == getAllSelectedIds(cont)

getSelectedIds(cont, selAll) ==
    IF selAll THEN getAllUnselectedIds(cont) ELSE getAllSelectedIds(cont)

getSelected(id, cont, selAll) ==
    IF id # None THEN <<id>> ELSE getSelectedIds(cont, selAll)

SelectMode(selAll) == IF selAll THEN "search" ELSE "id"

isSelectAllOf(cont, total, selAll) ==
    LET isAllSelected == Len(cont) > 0 /\ \A i \in 1 .. Len(cont) : cont[i].selected
    IN  (selAll /\ isAllSelected) \/ ((total <= Len(cont)) /\ isAllSelected)

\* mutant: under select-all the deselected items are not subtracted
selectedCountOf_NoExclusion(cont, total, selAll) ==
    IF selAll THEN total
    ELSE Cardinality({i \in 1 .. Len(cont) : cont[i].selected})

selectedCountOf(cont, total, selAll) ==
    IF selAll
    THEN total - Cardinality({i \in 1 .. Len(cont) : ~cont[i].selected})
    ELSE IF Len(cont) > 0
         THEN Cardinality({i \in 1 .. Len(cont) : cont[i].selected})
         ELSE 0

isSelectAll == isSelectAllOf(content, totalCount, selectedAll)
selectedCount == selectedCountOf(content, totalCount, selectedAll)

\* mutant: fetched items always arrive unselected
convert_Unselected(data, selAll) ==
    [i \in 1 .. Len(data) |->
        [id |-> data[i].id, name |-> data[i].name, selected |-> FALSE]]

convert(data, selAll) ==
    [i \in 1 .. Len(data) |->
        [id |-> data[i].id, name |-> data[i].name, selected |-> selAll]]

toggleSelectAll(cont, selected) ==
    [i \in 1 .. Len(cont) |-> [cont[i] EXCEPT !.selected = selected]]

renameContent(cont, id, name) ==
    LET index == findIndex(cont, id)
    IN  IF index # 0 THEN [cont EXCEPT ![index].name = name] ELSE cont

\* mutant: the page replaces the list instead of extending it
updateContent_Replace(cont, page) == page

updateContent(cont, page) == cont \o page

\* mutant: starting a request forgets the recorded error
changeLoading_ClearsError(rec, loading) == [loading |-> loading, error |-> NoError]

changeLoading(rec, loading) == [rec EXCEPT !.loading = loading]

\* mutant: a settled request leaves the loading flag as it was
changeDone_KeepsLoading(rec, err) == [loading |-> rec.loading, error |-> err]

changeDone(rec, err) == [loading |-> FALSE, error |-> err]

\* mutant: the cursor is not looked at
PaginationGuard_NoCursor(nid, total) == total > nid

PaginationGuard(nid, total) == nid > 0 /\ total > nid


\* mutant: the select-all branch is missing, the selected items are removed
removeContent_NoSelectAll(id, cont, total, nid, selAll, removedEls) ==
    LET ids == IF id # None /\ id # 0 THEN <<id>> ELSE getAllSelectedIds(cont)
        gone == {i \in 1 .. Len(cont) : Includes(ids, cont[i].id)}
        removed == SelectSeq2(cont, gone)
        result == SelectSeq2(cont, (1 .. Len(cont)) \ gone)
    IN  [content |-> toggleSelectAll(result, FALSE),
         totalCount |-> total - Len(ids),
         removedElements |-> IF Len(removed) > 0 THEN removed ELSE removedEls,
         selectedAll |-> FALSE,
         paginate |-> PaginationGuard(nid, total - Len(ids))]

\* mutant: the items that stay keep their selected flag
removeContent_KeepSelection(id, cont, total, nid, selAll, removedEls) ==
    IF id # None \/ ~selAll
    THEN LET ids == IF id # None /\ id # 0 THEN <<id>> ELSE getAllSelectedIds(cont)
             gone == {i \in 1 .. Len(cont) : Includes(ids, cont[i].id)}
             removed == SelectSeq2(cont, gone)
             result == SelectSeq2(cont, (1 .. Len(cont)) \ gone)
         IN  [content |-> result,
              totalCount |-> total - Len(ids),
              removedElements |-> IF Len(removed) > 0 THEN removed ELSE removedEls,
              selectedAll |-> FALSE,
              paginate |-> PaginationGuard(nid, total - Len(ids))]
    ELSE LET unsel == getAllUnselectedIds(cont)
             result == SelectSeq2(cont, {i \in 1 .. Len(cont) :
                                            Includes(unsel, cont[i].id)})
         IN  [content |-> result,
              totalCount |-> Len(result),
              removedElements |-> removedEls,
              selectedAll |-> FALSE,
              paginate |-> FALSE]

\* result of removeContent(id): the fields it assigns, and whether the
\* pagination() it calls issues a request (its guard, read after setTotalCount)
removeContent(id, cont, total, nid, selAll, removedEls) ==
    IF id # None \/ ~selAll
    THEN LET ids == IF id # None /\ id # 0 THEN <<id>> ELSE getAllSelectedIds(cont)
             gone == {i \in 1 .. Len(cont) : Includes(ids, cont[i].id)}
             removed == SelectSeq2(cont, gone)
             result == SelectSeq2(cont, (1 .. Len(cont)) \ gone)
         IN  [content |-> toggleSelectAll(result, FALSE),
              totalCount |-> total - Len(ids),
              removedElements |-> IF Len(removed) > 0 THEN removed ELSE removedEls,
              selectedAll |-> FALSE,
              paginate |-> PaginationGuard(nid, total - Len(ids))]
    ELSE LET unsel == getAllUnselectedIds(cont)
             result == SelectSeq2(cont, {i \in 1 .. Len(cont) :
                                            Includes(unsel, cont[i].id)})
         IN  [content |-> toggleSelectAll(result, FALSE),
              totalCount |-> Len(result),
              removedElements |-> removedEls,
              selectedAll |-> FALSE,
              paginate |-> FALSE]

\* what the continuation of rename assigns after the request resolved
renameDone(id, name, cont, total, nid, srt, removedEls) ==
    LET renamed == renameContent(cont, id, name)
        newContent == sortContent(renamed, srt)
        n == Len(newContent)
    IN  IF srt.key = "name" /\ n > 1 /\ newContent[n].id = id /\ total > nid
        THEN [content |-> SubSeq(newContent, 1, n - 1),
              removedElements |-> <<newContent[n]>>,
              nextId |-> nid - 1]
        ELSE [content |-> renamed, removedElements |-> removedEls, nextId |-> nid]

\* ------------------------------------------------------------- backend
InitName(i) == IF i % 2 = 0 THEN 97 + i ELSE 65 + i     \* "a", "B", "c", "D", ...

InitSrv == [i \in 1 .. Cardinality(Ids) |-> [id |-> i - 1, name |-> InitName(i - 1)]]

Reverse(s) == [i \in 1 .. Len(s) |-> s[Len(s) + 1 - i]]

\* the backend's list in the order a request's sort descriptor asks for
ServerList(items, srt) ==
    IF srt.key = "name" THEN sortContent(items, srt)
    ELSE IF srt.dir = 1 THEN items ELSE Reverse(items)

NoData == [data |-> <<>>, next_id |-> 0, total_count |-> 0]

\* the page at offset cursor; next_id is 0 when no further page exists
Page(list, cursor) ==
    LET data == SubSeq(list, cursor + 1, Min(cursor + PageSize, Len(list)))
        upto == cursor + Len(data)
    IN  [data |-> data,
         next_id |-> IF Len(data) > 0 /\ upto < Len(list) THEN upto ELSE 0,
         total_count |-> Len(list)]

Req(kind, id, ids, mode, name, toDir, cursor, rsort) ==
    [kind |-> kind, id |-> id, ids |-> ids, mode |-> mode, name |-> name,
     toDir |-> toDir, cursor |-> cursor, rsort |-> rsort]

\* requestContentData(): reads the cursor and the sort at the time of the call
\* (caller is the awaiting method: "load" for contentRequest, "pagination")
requestContentData(caller, nid, srt) == Req(caller, None, <<>>, "id", 0, 0, nid, srt)
requestContentRename(id, name) ==
    Req("rename", id, <<id>>, "id", name, 0, 0, [key |-> "name", dir |-> -1])
requestContentRemove(id, ids, mode) ==
    Req("remove", id, ids, mode, 0, 0, 0, [key |-> "name", dir |-> -1])
requestContentMove(id, ids, mode, toDir) ==
    Req("move", id, ids, mode, 0, toDir, 0, [key |-> "name", dir |-> -1])

\* the backend's items after a remove or move request
ServerRemove(items, ids, mode) ==
    IF mode = "search"
    THEN SelectSeq2(items, {i \in 1 .. Len(items) : Includes(ids, items[i].id)})
    ELSE SelectSeq2(items, {i \in 1 .. Len(items) : ~Includes(ids, items[i].id)})

ServerRename(items, id, name) ==
    [i \in 1 .. Len(items) |->
        IF items[i].id = id THEN [items[i] EXCEPT !.name = name] ELSE items[i]]

\* whether the backend can answer the request with success: a rename needs
\* its item; removing an item that is gone succeeds (the delete is idempotent)
ServerAccepts(req, items) ==
    req.kind = "rename" => \E k \in 1 .. Len(items) : items[k].id = req.id

\* the response the promise resolves with (Promise<void> carries no data)
Response(req, items) ==
    IF req.kind \in {"load", "pagination"}
    THEN Page(ServerList(items, req.rsort), req.cursor)
    ELSE NoData

\* the backend's items after it handled the request
ServerAfter(req, items) ==
    IF req.kind = "rename" THEN ServerRename(items, req.id, req.name)
    ELSE IF req.kind \in {"remove", "move"} THEN ServerRemove(items, req.ids, req.mode)
    ELSE items


\* ------------------------------------------------------------- CompoFactory
MaxRegistered == 3      \* factories handed to registerFactories
MaxCreate == 2          \* create() calls per run

ParamsTypes == {"text", "link", "image"}        \* values of ParamsType
\* implementations of Factory, each with the type field its instances carry;
\* the third stands for an implementation that declares a type already taken
FactoryClasses == { [name |-> "TextFactory", type |-> "text"],
                    [name |-> "LinkFactory", type |-> "link"],
                    [name |-> "SecondTextFactory", type |-> "text"] }
NoFactory == [name |-> "undefined", type |-> "undefined"]
Undefined == [factory |-> "undefined"]
NoProps == [data |-> [type |-> "none"], getType |-> "none", onChangeValue |-> "none"]

\* the props component() is called with: data is a ValidateParam, the two
\* methods are closures, told apart by a name
ComponentProps ==
    [data : [type : ParamsTypes, value : {1, 2}],
     getType : {"getType1", "getType2"}, onChangeValue : {"onChangeValue1"}]

FactoryLists ==
    UNION {[1 .. n -> FactoryClasses] : n \in 0 .. MaxRegistered}

RECURSIVE registerFactories_KeepFirst(_, _)
\* mutant: a type that has a factory keeps it
registerFactories_KeepFirst(map, fs) ==
    IF fs = <<>> THEN map
    ELSE LET f == Head(fs)
         IN  registerFactories_KeepFirst(
                 IF map[f.type] = NoFactory THEN [map EXCEPT ![f.type] = f] ELSE map,
                 Tail(fs))

RECURSIVE registerFactories(_, _)
\* factories.forEach(factory => this.factories[factory.type] = factory)
registerFactories(map, fs) ==
    IF fs = <<>> THEN map
    ELSE registerFactories([map EXCEPT ![Head(fs).type] = Head(fs)], Tail(fs))

\* const { data, ...methods } = props; const { type, ...params } = data
createProps(p) ==
    [data |-> [k \in DOMAIN p.data \ {"type"} |-> p.data[k]],
     getType |-> p.getType, onChangeValue |-> p.onChangeValue]

\* the element a factory's create(props) returns: which factory made it, of what
create(factory, cprops) == [factory |-> factory.name, props |-> cprops]

\* the state of a CompoFactory nobody has constructed
FactoryIdle ==
    /\ factories = [t \in ParamsTypes |-> NoFactory]
    /\ registered = <<>>
    /\ props = NoProps
    /\ element = Undefined
    /\ created = 0

\* the constructor: the field initialiser, then registerFactories(...)
FactoryInit ==
    /\ registered \in FactoryLists
    /\ factories = registerFactories([t \in ParamsTypes |-> NoFactory], registered)
    /\ props = NoProps
    /\ element = Undefined
    /\ created = 0

\* component(props): this.factories[type]?.create(createProps)
component(p) ==
    LET factory == factories[p.data.type]
    IN  /\ props' = p
        /\ IF factory # NoFactory
           THEN /\ created < MaxCreate
                /\ element' = create(factory, createProps(p))
                /\ created' = created + 1
           ELSE /\ element' = Undefined
                /\ created' = created
        /\ UNCHANGED <<factories, registered>>

\* ------------------------------------------------------------- JenericComponent
MaxInvoked == 2         \* onPagination calls from scroll handlers per run
MaxStale == 2           \* replaced scrollHandlers with a running timer
ScrollThreshold == 35   \* px from the bottom within which a scroll paginates

\* scroll positions, as distances of the viewport's bottom from the content's
Distances == {0, ScrollThreshold, ScrollThreshold + 1}

\* the state of a JenericComponent that is not mounted
ScrollIdle ==
    /\ withPagination = FALSE /\ onPaginationSet = FALSE
    /\ loadingFlag = FALSE /\ closureLoading = FALSE
    /\ armed = FALSE /\ staleTimers = EmptyBag
    /\ distance = ScrollThreshold + 1 /\ invoked = 0

\* after the first render and its effect: the scrollHandler closes over the
\* loading flag that render read; both refs are set from then on
ScrollMounted ==
    /\ withPagination \in BOOLEAN /\ onPaginationSet \in BOOLEAN
    /\ loadingFlag \in BOOLEAN /\ closureLoading = loadingFlag
    /\ armed = FALSE /\ staleTimers = EmptyBag
    /\ distance = ScrollThreshold + 1 /\ invoked = 0

\* the body of the debounced scrollHandler: whether it calls onPagination
scrollHandler(captured) ==
    ~captured /\ onPaginationSet /\ distance <= ScrollThreshold

\* what a firing timer does; onPagination may turn the loading flag on
Invoke(captured) ==
    IF scrollHandler(captured)
    THEN /\ invoked < MaxInvoked
         /\ invoked' = invoked + 1
         /\ \E started \in BOOLEAN : loadingFlag' = (loadingFlag \/ started)
    ELSE UNCHANGED <<invoked, loadingFlag>>

\* a scroll event of the container: with the listener attached the debounced
\* handler (re)starts its 300 ms timer
Scroll(d) ==
    /\ distance' = d
    /\ armed' = (armed \/ withPagination)
    /\ UNCHANGED <<withPagination, onPaginationSet, loadingFlag, closureLoading,
                   staleTimers, invoked>>

\* paginationState.loading changes (a request starts elsewhere, or settles)
setPaginationLoading(b) ==
    /\ loadingFlag # b
    /\ loadingFlag' = b
    /\ UNCHANGED <<withPagination, onPaginationSet, closureLoading, armed,
                   staleTimers, distance, invoked>>

\* a render that read a changed loading flag: the effect's cleanup removes the
\* listener (it does not cancel the handler's timer), the effect makes a new
\* debounced handler
Render ==
    /\ closureLoading # loadingFlag
    /\ armed => BagCardinality(staleTimers) < MaxStale
    /\ closureLoading' = loadingFlag
    /\ staleTimers' = IF armed THEN staleTimers (+) SetToBag({closureLoading})
                      ELSE staleTimers
    /\ armed' = FALSE
    /\ UNCHANGED <<withPagination, onPaginationSet, loadingFlag, distance, invoked>>

\* the timer of the scrollHandler in use fires
Fire ==
    /\ armed
    /\ armed' = FALSE
    /\ Invoke(closureLoading)
    /\ UNCHANGED <<withPagination, onPaginationSet, closureLoading, staleTimers,
                   distance>>

\* the timer of a replaced scrollHandler fires
FireStale(captured) ==
    /\ BagIn(captured, staleTimers)
    /\ staleTimers' = staleTimers (-) SetToBag({captured})
    /\ Invoke(captured)
    /\ UNCHANGED <<withPagination, onPaginationSet, closureLoading, armed,
                   distance>>

\* ------------------------------------------------------------- FieldItem
MaxRenders == 2         \* renders of one FieldItem per run

\* the field types (the keys of the icons map) and the scales of DateScale
FieldTypes == {"checkbox", "radio", "date", "datetime", "datetime-local",
               "month", "week", "time", "number", "range", "email", "text",
               "color", "search", "tel", "url", "file", "image", "password",
               "reset", "submit"}
DateScales == {"year", "month", "week", "day", "hour", "minute"}
NoScale == "none"       \* the field has no scale key
Fields == [type : FieldTypes, scale : DateScales \cup {NoScale}]
NoField == [type |-> "none", scale |-> NoScale]

\* the visualization strategy a field's declared type selects
GroupableTypes == {"checkbox", "radio"}
DateTypes == {"date", "datetime", "datetime-local", "month", "week", "time"}
NumberTypes == {"number", "range"}
isGroupableTypeField(f) == f.type \in GroupableTypes
isDateTypeField(f) == f.type \in DateTypes
isNumberTypeField(f) == f.type \in NumberTypes
isUngroupableTypeField(f) ==
    f.type \notin GroupableTypes \cup DateTypes \cup NumberTypes

\* mutant: AllType is the fallback rendered for every field
FieldItem_AllTypeAlways(f) ==
    (IF isGroupableTypeField(f) THEN <<"GroupableType">> ELSE <<>>)
    \o (IF isDateTypeField(f) THEN <<"DateType">> ELSE <<>>)
    \o (IF isNumberTypeField(f) THEN <<"NumberType">> ELSE <<>>)
    \o <<"AllType">>

\* the children of the fragment FieldItem returns: four independent
\* conditionals, each rendering its visualization when its predicate holds
FieldItem(f) ==
    (IF isGroupableTypeField(f) THEN <<"GroupableType">> ELSE <<>>)
    \o (IF isDateTypeField(f) THEN <<"DateType">> ELSE <<>>)
    \o (IF isNumberTypeField(f) THEN <<"NumberType">> ELSE <<>>)
    \o (IF isUngroupableTypeField(f) THEN <<"AllType">> ELSE <<>>)

\* a call of a callback of props: which one, and the scale it is given
NoHandler == "none"
Call(cb, scale) == [cb |-> cb, scale |-> scale]

\* the previous-scale control of DateControls is disabled
isDisabledPrevControl(f) ==
    IF f.scale # NoScale
    THEN IF f.type = "time" THEN f.scale = "hour" ELSE f.scale = "year"
    ELSE TRUE

\* setStartScale(): onResetDataScale(field.title)
setStartScale == <<Call("onResetDataScale", NoScale)>>

\* the callbacks onChangePrevDataScale(value) calls for field f
onChangePrevDataScale(f) ==
    IF f.scale # NoScale
    THEN IF f.scale = "month" THEN setStartScale
         ELSE IF f.scale = "day" THEN <<Call("onChangeDataScale", "month")>>
         ELSE IF f.scale = "hour" THEN <<Call("onChangeDataScale", "day")>>
         ELSE IF f.scale = "minute" THEN <<Call("onChangeDataScale", "hour")>>
         ELSE <<>>
    ELSE <<>>

\* 'scale' in field ? field.scale : start
scaleOr(f, start) == IF f.scale # NoScale THEN f.scale ELSE start

\* the callbacks onChangeDateScaleDate(value) calls for field f, next being
\* what the next-scale table of the field's type gives for the current scale
\* (the tables are imported from '../utils'; any scale may be their answer)
onChangeDateScaleDate(f, next) ==
    IF isDateTypeField(f)
    THEN IF f.type = "datetime-local"
         THEN IF scaleOr(f, "year") # "minute"
              THEN <<Call("onChangeDataScale", next)>> ELSE <<>>
         ELSE IF f.type = "date"
         THEN IF scaleOr(f, "year") # "day"
              THEN <<Call("onChangeDataScale", next)>> ELSE <<>>
         ELSE IF f.type = "month"
         THEN IF scaleOr(f, "year") # "month"
              THEN <<Call("onChangeDataScale", next)>> ELSE <<>>
         ELSE IF f.type = "week"
         THEN IF scaleOr(f, "year") # "week"
              THEN <<Call("onChangeDataScale", next)>> ELSE <<>>
         ELSE IF f.type = "time"
         THEN IF scaleOr(f, "hour") # "minute"
              THEN <<Call("onChangeDataScale", next)>> ELSE <<>>
         ELSE <<>>
    ELSE <<>>

\* no FieldItem rendered
FieldIdle ==
    /\ field = NoField /\ fragment = <<>> /\ fieldRenders = 0
    /\ handler = NoHandler /\ fired = <<>>

\* a render of FieldItem with the field the parent passes
RenderField(f) ==
    /\ fieldRenders < MaxRenders
    /\ field' = f
    /\ fragment' = FieldItem(f)
    /\ fieldRenders' = fieldRenders + 1
    /\ handler' = NoHandler
    /\ fired' = <<>>

\* DateType is among the visualizations of the latest render
DateTypeRendered == \E i \in 1 .. Len(fragment) : fragment[i] = "DateType"

\* DateControls calls its onChangeScale prop (onChangePrevDataScale)
onChangeScale ==
    /\ DateTypeRendered
    /\ handler' = "onChangePrevDataScale"
    /\ fired' = onChangePrevDataScale(field)
    /\ UNCHANGED <<field, fragment, fieldRenders>>

\* DateType calls its onSelectDataPeriod prop (onChangeDateScaleDate)
onSelectDataPeriod(next) ==
    /\ DateTypeRendered
    /\ handler' = "onChangeDateScaleDate"
    /\ fired' = onChangeDateScaleDate(field, next)
    /\ UNCHANGED <<field, fragment, fieldRenders>>

\* ------------------------------------------------------------- state
Prog == [content |-> content, totalCount |-> totalCount, nextId |-> nextId,
         sort |-> sort, state |-> state, paginationState |-> paginationState,
         actionState |-> actionState, selectedAll |-> selectedAll,
         removedElements |-> removedElements]

NoReq == Req("none", None, <<>>, "id", 0, 0, 0, [key |-> "name", dir |-> -1])

NoProg == [content |-> <<>>, totalCount |-> 0, nextId |-> 0,
           sort |-> [key |-> "name", dir |-> -1],
           state |-> [loading |-> FALSE, error |-> NoError],
           paginationState |-> [loading |-> FALSE, error |-> NoError],
           actionState |-> [loading |-> FALSE, error |-> NoError],
           selectedAll |-> FALSE, removedElements |-> <<>>]

\* the record of a step: op, the request (or arguments) it concerns, the
\* response it resolved with, whether the step issued a request, the program
\* state before the step and, when the step settles the request that the
\* step before it issued, the program state before that call (direct); a
\* rejection also records its value (err)
Step(op, req, resp, issued) ==
    LET direct == op \in {"resolve", "reject"} /\ last.op = "call"
                  /\ last.issued /\ last.req = req
    IN  [op |-> op, req |-> req, resp |-> resp, err |-> NoError,
         issued |-> issued, pre |-> Prog, direct |-> direct,
         callPre |-> IF direct THEN last.pre ELSE NoProg]

Idle == [loading |-> FALSE, error |-> NoError]

Issue(bag, req) == bag (+) SetToBag({req})
Settle(bag, req) == bag (-) SetToBag({req})

CanCall == ops < MaxOps
CanIssue == BagCardinality(inflight) < MaxInFlight

\* the constructor: fields set, then init() runs contentRequest up to its await
Init ==
    /\ content = <<>>
    /\ totalCount = 0
    /\ nextId = 0
    /\ sort = [key |-> "name", dir |-> -1]
    /\ state = [loading |-> TRUE, error |-> NoError]
    /\ paginationState = Idle
    /\ actionState = Idle
    /\ selectedAll = FALSE
    /\ removedElements = <<>>
    /\ inflight = SetToBag({requestContentData("load", 0, [key |-> "name", dir |-> -1])})
    /\ srv = InitSrv
    /\ ops = 0
    /\ last = [op |-> "constructor", req |-> NoReq, resp |-> NoData,
               err |-> NoError, issued |-> TRUE, pre |-> NoProg, direct |-> FALSE,
               callPre |-> NoProg]
    /\ FactoryIdle /\ ScrollIdle /\ FieldIdle

\* ------------------------------------------------------------- calls
\* rename(id, name) up to the await
CallRename(id, name) ==
    /\ CanCall /\ CanIssue
    /\ actionState' = changeLoading(actionState, TRUE)
    /\ inflight' = Issue(inflight, requestContentRename(id, name))
    /\ ops' = ops + 1
    /\ last' = Step("call", requestContentRename(id, name), NoData, TRUE)
    /\ UNCHANGED <<content, totalCount, nextId, sort, state, paginationState,
                   selectedAll, removedElements, srv, uiVars>>

\* mutant: the select-all flag alone does not send a request
CallRemove_NeedsIds(id) ==
    LET ids == getSelected(id, content, selectedAll)
        req == requestContentRemove(id, ids, SelectMode(selectedAll))
    IN  IF Len(ids) > 0
        THEN /\ CanCall /\ CanIssue
             /\ actionState' = changeLoading(actionState, TRUE)
             /\ inflight' = Issue(inflight, req)
             /\ ops' = ops + 1
             /\ last' = Step("call", req, NoData, TRUE)
             /\ UNCHANGED <<content, totalCount, nextId, sort, state,
                            paginationState, selectedAll, removedElements, srv, uiVars>>
        ELSE /\ CanCall
             /\ last' = Step("call", req, NoData, FALSE)
             /\ UNCHANGED <<content, totalCount, nextId, sort, state,
                            paginationState, actionState, selectedAll,
                            removedElements, inflight, srv, ops, uiVars>>

\* remove(id?) up to the await, or all of it when nothing is to be removed
CallRemove(id) ==
    LET ids == getSelected(id, content, selectedAll)
        req == requestContentRemove(id, ids, SelectMode(selectedAll))
    IN  IF selectedAll \/ Len(ids) > 0
        THEN /\ CanCall /\ CanIssue
             /\ actionState' = changeLoading(actionState, TRUE)
             /\ inflight' = Issue(inflight, req)
             /\ ops' = ops + 1
             /\ last' = Step("call", req, NoData, TRUE)
             /\ UNCHANGED <<content, totalCount, nextId, sort, state,
                            paginationState, selectedAll, removedElements, srv, uiVars>>
        ELSE /\ CanCall
             /\ last' = Step("call", req, NoData, FALSE)
             /\ UNCHANGED <<content, totalCount, nextId, sort, state,
                            paginationState, actionState, selectedAll,
                            removedElements, inflight, srv, ops, uiVars>>

\* move(toDir, id?) up to the await, or all of it when nothing is to be moved
CallMove(toDir, id) ==
    LET ids == getSelected(id, content, selectedAll)
        req == requestContentMove(id, ids, SelectMode(selectedAll), toDir)
    IN  IF selectedAll \/ Len(ids) > 0
        THEN /\ CanCall /\ CanIssue
             /\ actionState' = changeLoading(actionState, TRUE)
             /\ inflight' = Issue(inflight, req)
             /\ ops' = ops + 1
             /\ last' = Step("call", req, NoData, TRUE)
             /\ UNCHANGED <<content, totalCount, nextId, sort, state,
                            paginationState, selectedAll, removedElements, srv, uiVars>>
        ELSE /\ CanCall
             /\ last' = Step("call", req, NoData, FALSE)
             /\ UNCHANGED <<content, totalCount, nextId, sort, state,
                            paginationState, actionState, selectedAll,
                            removedElements, inflight, srv, ops, uiVars>>

\* pagination() up to the await inside paginationRequest, or all of it
CallPagination ==
    LET req == requestContentData("pagination", nextId, sort)
    IN  IF PaginationGuard(nextId, totalCount)
        THEN /\ CanCall /\ CanIssue
             /\ paginationState' = changeLoading(paginationState, TRUE)
             /\ inflight' = Issue(inflight, req)
             /\ ops' = ops + 1
             /\ last' = Step("call", req, NoData, TRUE)
             /\ UNCHANGED <<content, totalCount, nextId, sort, state, actionState,
                            selectedAll, removedElements, srv, uiVars>>
        ELSE /\ CanCall
             /\ last' = Step("call", req, NoData, FALSE)
             /\ UNCHANGED <<content, totalCount, nextId, sort, state,
                            paginationState, actionState, selectedAll,
                            removedElements, inflight, srv, ops, uiVars>>

\* onChangeSort(sort) up to the await inside contentRequest
CallSort(srt) ==
    /\ CanCall /\ CanIssue
    /\ sort' = srt
    /\ nextId' = 0
    /\ state' = changeLoading(state, TRUE)
    /\ inflight' = Issue(inflight, requestContentData("load", 0, srt))
    /\ ops' = ops + 1
    /\ last' = Step("call", requestContentData("load", 0, srt), NoData, TRUE)
    /\ UNCHANGED <<content, totalCount, paginationState, actionState,
                   selectedAll, removedElements, srv, uiVars>>

\* ------------------------------------------------------------- synchronous
\* mutant: unselecting an item also clears the select-all flag
onToggleSelected_ClearsFlag(id, selected) ==
    /\ CanCall
    /\ content' = (LET index == findIndex(content, id)
                   IN  IF index # 0
                       THEN [content EXCEPT ![index].selected = selected]
                       ELSE content)
    /\ selectedAll' = (selectedAll /\ selected)
    /\ ops' = IF content' # content THEN ops + 1 ELSE ops
    /\ last' = Step("onToggleSelected",
                    [NoReq EXCEPT !.id = id, !.mode = IF selected THEN "T" ELSE "F"],
                    NoData, FALSE)
    /\ UNCHANGED <<totalCount, nextId, sort, state, paginationState, actionState,
                   removedElements, inflight, srv, uiVars>>

onToggleSelected(id, selected) ==
    /\ CanCall
    /\ content' = (LET index == findIndex(content, id)
                   IN  IF index # 0
                       THEN [content EXCEPT ![index].selected = selected]
                       ELSE content)
    /\ ops' = IF content' # content THEN ops + 1 ELSE ops
    /\ last' = Step("onToggleSelected",
                    [NoReq EXCEPT !.id = id, !.mode = IF selected THEN "T" ELSE "F"],
                    NoData, FALSE)
    /\ UNCHANGED <<totalCount, nextId, sort, state, paginationState, actionState,
                   selectedAll, removedElements, inflight, srv, uiVars>>

toggleSelectedAll(select) ==
    /\ CanCall
    /\ selectedAll' = select
    /\ content' = toggleSelectAll(content, select)
    /\ ops' = IF selectedAll' # selectedAll \/ content' # content THEN ops + 1 ELSE ops
    /\ last' = Step("toggleSelectedAll",
                    [NoReq EXCEPT !.mode = IF select THEN "T" ELSE "F"], NoData, FALSE)
    /\ UNCHANGED <<totalCount, nextId, sort, state, paginationState, actionState,
                   removedElements, inflight, srv, uiVars>>

resetActionState ==
    /\ CanCall
    /\ actionState' = changeDone(actionState, NoError)
    /\ ops' = IF actionState' # actionState THEN ops + 1 ELSE ops
    /\ last' = Step("resetActionState", NoReq, NoData, FALSE)
    /\ UNCHANGED <<content, totalCount, nextId, sort, state, paginationState,
                   selectedAll, removedElements, inflight, srv, uiVars>>


\* ------------------------------------------------------------- continuations
\* what contentRequest assigns from a response
contentDone(resp, selAll) ==
    [content |-> convert(resp.data, selAll),
     totalCount |-> resp.total_count,
     nextId |-> resp.next_id]

\* what paginationRequest assigns from a response
paginationDone(resp, cont, selAll) ==
    [content |-> updateContent(cont, convert(resp.data, selAll)),
     nextId |-> resp.next_id]

\* contentRequest after its await resolved
ResolveLoad(req) ==
    LET resp == Response(req, srv)
        r == contentDone(resp, selectedAll)
    IN  /\ req.kind = "load"
        /\ content' = r.content
        /\ totalCount' = r.totalCount
        /\ nextId' = r.nextId
        /\ state' = changeDone(state, NoError)
        /\ inflight' = Settle(inflight, req)
        /\ last' = Step("resolve", req, resp, FALSE)
        /\ UNCHANGED <<sort, paginationState, actionState, selectedAll,
                       removedElements, srv, ops, uiVars>>

\* paginationRequest after its await resolved
ResolvePagination(req) ==
    LET resp == Response(req, srv)
        r == paginationDone(resp, content, selectedAll)
    IN  /\ req.kind = "pagination"
        /\ content' = r.content
        /\ nextId' = r.nextId
        /\ paginationState' = changeDone(paginationState, NoError)
        /\ inflight' = Settle(inflight, req)
        /\ last' = Step("resolve", req, resp, FALSE)
        /\ UNCHANGED <<totalCount, sort, state, actionState, selectedAll,
                       removedElements, srv, ops, uiVars>>

\* rename after its await resolved
ResolveRename(req) ==
    LET r == renameDone(req.id, req.name, content, totalCount, nextId, sort,
                        removedElements)
    IN  /\ req.kind = "rename" /\ ServerAccepts(req, srv)
        /\ srv' = ServerAfter(req, srv)
        /\ content' = r.content
        /\ removedElements' = r.removedElements
        /\ nextId' = r.nextId
        /\ actionState' = changeDone(actionState, NoError)
        /\ inflight' = Settle(inflight, req)
        /\ last' = Step("resolve", req, NoData, FALSE)
        /\ UNCHANGED <<totalCount, sort, state, paginationState, selectedAll, ops, uiVars>>

\* remove / move after the await resolved: removeContent(id), whose call of
\* pagination() may put a pagination request in flight
ResolveRemove(req) ==
    LET r == removeContent(req.id, content, totalCount, nextId, selectedAll,
                           removedElements)
        preq == requestContentData("pagination", nextId, sort)
    IN  /\ req.kind \in {"remove", "move"}
        /\ srv' = ServerAfter(req, srv)
        /\ content' = r.content
        /\ totalCount' = r.totalCount
        /\ removedElements' = r.removedElements
        /\ selectedAll' = r.selectedAll
        /\ actionState' = changeDone(actionState, NoError)
        /\ IF r.paginate
           THEN /\ paginationState' = changeLoading(paginationState, TRUE)
                /\ inflight' = Issue(Settle(inflight, req), preq)
           ELSE /\ paginationState' = paginationState
                /\ inflight' = Settle(inflight, req)
        /\ last' = Step("resolve", req, NoData, r.paginate)
        /\ UNCHANGED <<nextId, sort, state, ops, uiVars>>

\* the catch branch of the method awaiting the request
Reject(req, e) ==
    /\ state' = IF req.kind = "load" THEN changeDone(state, e) ELSE state
    /\ paginationState' = IF req.kind = "pagination"
                          THEN changeDone(paginationState, e)
                          ELSE paginationState
    /\ actionState' = IF req.kind \in {"rename", "remove", "move"}
                      THEN changeDone(actionState, e)
                      ELSE actionState
    /\ inflight' = Settle(inflight, req)
    /\ last' = [Step("reject", req, NoData, FALSE) EXCEPT !.err = e]
    /\ UNCHANGED <<content, totalCount, nextId, sort, selectedAll,
                   removedElements, srv, ops, uiVars>>

Next ==
    \/ \E id \in ArgIds, name \in RenameNames : CallRename(id, name)
    \/ \E id \in ArgIds \cup {None} : CallRemove(id)
    \/ \E toDir \in Dirs, id \in ArgIds \cup {None} : CallMove(toDir, id)
    \/ CallPagination
    \/ \E srt \in SortInputs : CallSort(srt)
    \/ \E id \in ArgIds, selected \in BOOLEAN : onToggleSelected(id, selected)
    \/ \E select \in BOOLEAN : toggleSelectedAll(select)
    \/ resetActionState
    \/ \E req \in BagToSet(inflight) : ResolveLoad(req)
    \/ \E req \in BagToSet(inflight) : ResolvePagination(req)
    \/ \E req \in BagToSet(inflight) : ResolveRename(req)
    \/ \E req \in BagToSet(inflight) : ResolveRemove(req)
    \/ \E req \in BagToSet(inflight), e \in Errors : Reject(req, e)

Spec == Init /\ [][Next]_vars

\* FileSystemLogic before any of it runs: what the other components' runs hold
LogicIdle ==
    /\ content = <<>> /\ totalCount = 0 /\ nextId = 0
    /\ sort = [key |-> "name", dir |-> -1]
    /\ state = Idle /\ paginationState = Idle /\ actionState = Idle
    /\ selectedAll = FALSE /\ removedElements = <<>>
    /\ inflight = EmptyBag /\ srv = InitSrv /\ ops = 0
    /\ last = [op |-> "none", req |-> NoReq, resp |-> NoData, err |-> NoError,
               issued |-> FALSE, pre |-> NoProg, direct |-> FALSE,
               callPre |-> NoProg]

\* ------------------------------------------------------------- a longer list
\* FileSystemLogic as above over a backend that holds two full pages, so that
\* a removal from the first page leaves items to refill it with
LongIds == {0, 1, 2, 3}
LongSrv == [i \in 1 .. Cardinality(LongIds) |-> [id |-> i - 1, name |-> InitName(i - 1)]]

InitLong ==
    /\ content = <<>>
    /\ totalCount = 0
    /\ nextId = 0
    /\ sort = [key |-> "name", dir |-> -1]
    /\ state = [loading |-> TRUE, error |-> NoError]
    /\ paginationState = Idle
    /\ actionState = Idle
    /\ selectedAll = FALSE
    /\ removedElements = <<>>
    /\ inflight = SetToBag({requestContentData("load", 0, [key |-> "name", dir |-> -1])})
    /\ srv = LongSrv
    /\ ops = 0
    /\ last = [op |-> "constructor", req |-> NoReq, resp |-> NoData,
               err |-> NoError, issued |-> TRUE, pre |-> NoProg, direct |-> FALSE,
               callPre |-> NoProg]
    /\ FactoryIdle /\ ScrollIdle /\ FieldIdle

SpecLong == InitLong /\ [][Next]_vars

\* ------------------------------------------------------------- one more call
\* FileSystemLogic as above with room for ExtraCalls calls beyond MaxOps: ops
\* counts the calls against the budget of CanCall
ExtraCalls == 1

InitExtra ==
    /\ content = <<>>
    /\ totalCount = 0
    /\ nextId = 0
    /\ sort = [key |-> "name", dir |-> -1]
    /\ state = [loading |-> TRUE, error |-> NoError]
    /\ paginationState = Idle
    /\ actionState = Idle
    /\ selectedAll = FALSE
    /\ removedElements = <<>>
    /\ inflight = SetToBag({requestContentData("load", 0, [key |-> "name", dir |-> -1])})
    /\ srv = InitSrv
    /\ ops = 0 - ExtraCalls
    /\ last = [op |-> "constructor", req |-> NoReq, resp |-> NoData,
               err |-> NoError, issued |-> TRUE, pre |-> NoProg, direct |-> FALSE,
               callPre |-> NoProg]
    /\ FactoryIdle /\ ScrollIdle /\ FieldIdle

SpecExtra == InitExtra /\ [][Next]_vars

\* ------------------------------------------------------------- CompoFactory runs
InitFactory == FactoryInit /\ LogicIdle /\ ScrollIdle /\ FieldIdle

NextFactory ==
    \E p \in ComponentProps : component(p) /\ UNCHANGED <<logicVars, scrollVars, fieldVars>>

SpecFactory == InitFactory /\ [][NextFactory]_vars

\* ------------------------------------------------------------- JenericComponent runs
InitScroll == ScrollMounted /\ LogicIdle /\ FactoryIdle /\ FieldIdle

NextScroll ==
    \/ \E d \in Distances : Scroll(d) /\ UNCHANGED <<logicVars, factoryVars, fieldVars>>
    \/ \E b \in BOOLEAN : setPaginationLoading(b) /\ UNCHANGED <<logicVars, factoryVars, fieldVars>>
    \/ Render /\ UNCHANGED <<logicVars, factoryVars, fieldVars>>
    \/ Fire /\ UNCHANGED <<logicVars, factoryVars, fieldVars>>
    \/ \E c \in BOOLEAN : FireStale(c) /\ UNCHANGED <<logicVars, factoryVars, fieldVars>>

SpecScroll == InitScroll /\ [][NextScroll]_vars

\* ------------------------------------------------------------- FieldItem runs
InitField == FieldIdle /\ LogicIdle /\ FactoryIdle /\ ScrollIdle

NextField ==
    \/ \E f \in Fields : RenderField(f) /\ UNCHANGED <<logicVars, factoryVars, scrollVars>>
    \/ onChangeScale /\ UNCHANGED <<logicVars, factoryVars, scrollVars>>
    \/ \E next \in DateScales :
           onSelectDataPeriod(next) /\ UNCHANGED <<logicVars, factoryVars, scrollVars>>

SpecField == InitField /\ [][NextField]_vars


\* ------------------------------------------------------------- properties
\* number of requests in flight whose kind is in kinds
InFlightOf(kinds) ==
    LET reqs == {r \in BagToSet(inflight) : r.kind \in kinds}
    IN  BagCardinality([r \in reqs |-> inflight[r]])

InitialKinds == {"load"}
PaginationKinds == {"pagination"}
ActionKinds == {"rename", "remove", "move"}

\* ids of the items of cont whose selected flag is flag, in list order
IdsWhere(cont, flag) == IdsOf(SelectSeq(cont, LAMBDA it : it.selected = flag))
ItemsWhere(cont, flag) == SelectSeq(cont, LAMBDA it : it.selected = flag)
NumWhere(cont, flag) == Len(ItemsWhere(cont, flag))
IdSet(cont) == {cont[i].id : i \in 1 .. Len(cont)}

\* the fields a failed operation is to leave alone
DataOf(p) == <<p.content, p.totalCount, p.nextId, p.selectedAll, p.removedElements>>

IsCall(kinds) == last.op = "call" /\ last.issued /\ last.req.kind \in kinds
IsResolve(kinds) == last.op = "resolve" /\ last.req.kind \in kinds

\* C1: at most one backend request per operation category (initial load,
\* pagination, action) is in flight at any time.
C1_SingleInFlight ==
    /\ InFlightOf(InitialKinds) <= 1
    /\ InFlightOf(PaginationKinds) <= 1
    /\ InFlightOf(ActionKinds) <= 1

\* C2: each loading flag is true exactly when a request of its category has
\* been issued and has neither resolved nor rejected.
C2_LoadingIffInFlight ==
    /\ state.loading <=> InFlightOf(InitialKinds) >= 1
    /\ paginationState.loading <=> InFlightOf(PaginationKinds) >= 1
    /\ actionState.loading <=> InFlightOf(ActionKinds) >= 1

\* C3: in every reachable state 0 <= selectedCount <= totalCount.
C3_SelectedCountRange == 0 <= selectedCount /\ selectedCount <= totalCount


PreCount == selectedCountOf(last.pre.content, last.pre.totalCount, last.pre.selectedAll)

\* C4: selectedCount is totalCount minus the number of loaded unselected items
\* under select-all and the number of loaded selected items otherwise; under
\* select-all, deselecting a loaded selected item through onToggleSelected
\* lowers it by exactly 1 and selecting it again raises it by exactly 1.
C4_SelectedCount ==
    /\ selectedCount = IF selectedAll
                       THEN totalCount - NumWhere(content, FALSE)
                       ELSE NumWhere(content, TRUE)
    /\ (last.op = "onToggleSelected" /\ selectedAll) =>
         LET i == findIndex(last.pre.content, last.req.id)
         IN  i # 0 =>
               /\ (last.pre.content[i].selected /\ last.req.mode = "F")
                    => selectedCount = PreCount - 1
               /\ (~last.pre.content[i].selected /\ last.req.mode = "T")
                    => selectedCount = PreCount + 1

\* a loaded item deselected earlier under select-all has just been selected again
C4_Witness ==
    /\ last.op = "onToggleSelected" /\ selectedAll /\ last.req.mode = "T"
    /\ findIndex(last.pre.content, last.req.id) # 0
    /\ ~last.pre.content[findIndex(last.pre.content, last.req.id)].selected
    /\ selectedCount = totalCount

\* C5: remove() and move(toDir) without id send mode 'search' with the ids of
\* the loaded unselected items when select-all is set, and mode 'id' with the
\* ids of the loaded selected items when it is not.
C5_BulkRequest ==
    (IsCall({"remove", "move"}) /\ last.req.id = None) =>
        /\ BagIn(last.req, inflight)
        /\ IF last.pre.selectedAll
           THEN last.req.mode = "search"
                /\ last.req.ids = IdsWhere(last.pre.content, FALSE)
           ELSE last.req.mode = "id"
                /\ last.req.ids = IdsWhere(last.pre.content, TRUE)

\* a bulk request under select-all that carries a non-empty exclusion list
C5_Witness ==
    /\ IsCall({"remove", "move"}) /\ last.req.id = None
    /\ last.pre.selectedAll /\ Len(last.req.ids) > 0
    /\ NumWhere(last.pre.content, TRUE) > 0

\* C6: remove(id) and move(toDir, id) with an explicit id target that item
\* alone: mode 'id' and ids = [id], also when select-all is set.
C6_SingleRequest ==
    (IsCall({"remove", "move"}) /\ last.req.id # None) =>
        last.req.mode = "id" /\ last.req.ids = <<last.req.id>>

\* C7: after a successful remove(id) / move(toDir, id) of a loaded item the
\* ids removed from content are exactly that id, as sent in the request, and
\* totalCount has decreased by the number of ids sent.
C7_SingleRemoved ==
    (IsResolve({"remove", "move"}) /\ last.req.id # None
       /\ last.req.id \in IdSet(last.pre.content)) =>
        /\ IdSet(last.pre.content) \ IdSet(content) = {last.req.id}
        /\ IdSet(last.pre.content) \ IdSet(content)
              = {last.req.ids[k] : k \in 1 .. Len(last.req.ids)}
        /\ totalCount = last.pre.totalCount - Len(last.req.ids)

\* C8: after a successful remove() / move(toDir) without id under select-all,
\* content is the previously loaded unselected items in their order,
\* totalCount is its length, select-all is off, and removedElements and
\* nextId are unchanged.
C8_BulkSelectAllRemoved ==
    (IsResolve({"remove", "move"}) /\ last.req.id = None /\ last.pre.selectedAll) =>
        /\ content = ItemsWhere(last.pre.content, FALSE)
        /\ totalCount = Len(content)
        /\ selectedAll = FALSE
        /\ removedElements = last.pre.removedElements
        /\ nextId = last.pre.nextId

\* a select-all removal that kept an excluded item and dropped a selected one
C8_Witness ==
    /\ IsResolve({"remove", "move"}) /\ last.req.id = None /\ last.pre.selectedAll
    /\ Len(content) > 0 /\ Len(content) < Len(last.pre.content)
    /\ last.pre.totalCount > Len(last.pre.content)

LoadingOf(kind) ==
    IF kind = "load" THEN state
    ELSE IF kind = "pagination" THEN paginationState ELSE actionState

\* C9: when the request of an operation rejects, the loading record of its
\* category is {loading: false, error: the rejection value} and content,
\* totalCount, nextId, select-all, the selection flags and removedElements are
\* as they were immediately before the operation was called.
C9_RejectRestores ==
    (last.op = "reject" /\ last.direct) =>
        /\ LoadingOf(last.req.kind) = [loading |-> FALSE, error |-> last.err]
        /\ DataOf(Prog) = DataOf(last.callPre)

\* C10: a successful pagination request appends the fetched page: the items
\* loaded before keep order, names and flags, nextId is the response's
\* next_id, and totalCount, sort and select-all are unchanged.
C10_PaginationAppends ==
    IsResolve({"pagination"}) =>
        LET old == last.pre.content
            page == last.resp.data
        IN  /\ Len(content) = Len(old) + Len(page)
            /\ SubSeq(content, 1, Len(old)) = old
            /\ \A k \in 1 .. Len(page) :
                  /\ content[Len(old) + k].id = page[k].id
                  /\ content[Len(old) + k].name = page[k].name
            /\ nextId = last.resp.next_id
            /\ totalCount = last.pre.totalCount
            /\ sort = last.pre.sort
            /\ selectedAll = last.pre.selectedAll

\* a page of at least one item appended behind loaded items
C10_Witness ==
    /\ IsResolve({"pagination"})
    /\ Len(last.resp.data) > 0 /\ Len(last.pre.content) > 0
    /\ Len(content) > Len(last.pre.content)

\* C11: pagination() issues a request only when nextId > 0 and
\* totalCount > nextId; otherwise it issues none and leaves every state
\* variable, paginationState included, unchanged.  Whoever calls it (the
\* caller of the public method, removeContent), a pagination request goes out
\* only with nextId > 0, so none goes out once the backend reported no
\* further page (nextId = 0).
C11_PaginationGuarded ==
    [][ /\ (last'.op = "call" /\ last'.req.kind = "pagination") =>
             IF nextId > 0 /\ totalCount > nextId
             THEN /\ inflight' = Issue(inflight, last'.req)
                  /\ last'.req.cursor = nextId
             ELSE UNCHANGED <<content, totalCount, nextId, sort, state,
                              paginationState, actionState, selectedAll,
                              removedElements, inflight, srv>>
        /\ (InFlightOf(PaginationKinds)' > InFlightOf(PaginationKinds)) =>
             nextId' > 0 /\ totalCount' > nextId'
      ]_vars

\* pagination() was called with the whole list loaded and did nothing
C11_Witness ==
    /\ last.op = "call" /\ last.req.kind = "pagination" /\ ~last.issued
    /\ nextId = 0 /\ totalCount > 0 /\ Len(content) = totalCount
    /\ Prog = last.pre

\* a pagination request went out in the step just taken
PaginationIssued ==
    last.issued /\ (IsCall({"pagination"}) \/ IsResolve({"remove", "move"}))

\* a reload that onChangeSort started has not settled
ReloadInFlight ==
    \E r \in BagToSet(inflight) : r.kind = "load" /\ r.rsort \in SortInputs

\* C12 (its first part): onChangeSort(sort) sets the sort descriptor to the
\* given value and resets nextId to 0 before it issues the request for the
\* first page.
C12_SortCall ==
    (IsCall({"load"})) =>
        /\ sort = last.req.rsort
        /\ nextId = 0
        /\ last.req.cursor = 0
        /\ BagIn(last.req, inflight)

\* C12 (its last part): on success content is replaced entirely by the
\* returned first page and totalCount and nextId are set from the response.
C12_SortDone ==
    (IsResolve({"load"}) /\ last.req.rsort \in SortInputs) =>
        /\ IdsOf(content) = IdsOf(last.resp.data)
        /\ \A k \in 1 .. Len(content) : content[k].name = last.resp.data[k].name
        /\ totalCount = last.resp.total_count
        /\ nextId = last.resp.next_id
        /\ last.req.cursor = 0

\* C12: onChangeSort(sort) sets the sort descriptor to the given value and
\* resets nextId to 0 before the request is issued, so that pagination()
\* issues nothing while the reload is in flight; on success it replaces
\* content entirely with the returned first page and sets totalCount and
\* nextId from the response.
C12_SortReload ==
    /\ C12_SortCall
    /\ PaginationIssued => ~ReloadInFlight
    /\ C12_SortDone

\* cont is in the order of the names, compared case-insensitively, ascending
\* for direction 1 and descending otherwise
OrderedByName(cont, srt) ==
    \A i \in 1 .. (Len(cont) - 1) :
        IF srt.dir = 1
        THEN checkProp(cont[i].name) <= checkProp(cont[i + 1].name)
        ELSE checkProp(cont[i].name) >= checkProp(cont[i + 1].name)

\* C16: after a successful rename(id, name) of a loaded item while the sort
\* descriptor is by name, content (in that order before the rename) is
\* ordered by name, compared case-insensitively, ascending when sort.name is
\* 1 and descending otherwise.
C16_RenameSorted ==
    (/\ IsResolve({"rename"}) /\ sort.key = "name"
     /\ last.req.id \in IdSet(last.pre.content)
     /\ OrderedByName(last.pre.content, sort)) =>
        OrderedByName(content, sort)

\* position of the item a resolved rename was for, in the list before it
RenamedAt == findIndex(last.pre.content, last.req.id)

\* the rename put its item behind every other loaded item in the name order
\* (behind the items of equal name only when it stood behind them already)
BecomesLast ==
    LET old == last.pre.content
        new == checkProp(last.req.name)
    IN  /\ RenamedAt # 0 /\ Len(old) > 1
        /\ \A j \in (1 .. Len(old)) \ {RenamedAt} :
              LET other == checkProp(old[j].name)
              IN  \/ IF sort.dir = 1 THEN other < new ELSE other > new
                  \/ other = new /\ j < RenamedAt

\* a rename resolved for an id that content held at most once
RenameResolved ==
    /\ IsResolve({"rename"})
    /\ Cardinality({i \in 1 .. Len(last.pre.content) :
                        last.pre.content[i].id = last.req.id}) <= 1

RenameDrops ==
    /\ RenameResolved /\ sort.key = "name" /\ BecomesLast
    /\ last.pre.totalCount > last.pre.nextId

\* C17 (the drop): the item is dropped from content, is the sole element of
\* removedElements, nextId is decremented by exactly 1, totalCount unchanged.
C17_RenameDropped ==
    RenameDrops =>
        /\ Len(content) = Len(last.pre.content) - 1
        /\ IdSet(content) = IdSet(last.pre.content) \ {last.req.id}
        /\ removedElements =
              <<[last.pre.content[RenamedAt] EXCEPT !.name = last.req.name]>>
        /\ nextId = last.pre.nextId - 1
        /\ totalCount = last.pre.totalCount

\* C17 (every other successful rename): the loaded ids, nextId and totalCount
\* are unchanged and only the target item's name changes.
C17_RenameKept ==
    (RenameResolved /\ ~RenameDrops) =>
        /\ IdsOf(content) = IdsOf(last.pre.content)
        /\ nextId = last.pre.nextId
        /\ totalCount = last.pre.totalCount
        /\ \A i \in 1 .. Len(content) :
              content[i] = IF i = RenamedAt
                           THEN [last.pre.content[i] EXCEPT !.name = last.req.name]
                           ELSE last.pre.content[i]

\* C17 (the purpose of the drop): the dropped item is fetched again by later
\* pagination, that is pagination() issues a request after the drop and the
\* backend lists the item at or behind the cursor.
C17_Refetched ==
    RenameDrops =>
        /\ nextId > 0 /\ totalCount > nextId
        /\ \E k \in (nextId + 1) .. Len(srv) :
              ServerList(srv, sort)[k].id = last.req.id

\* C17: when a successful rename under name sort makes the renamed item the
\* last of more than one loaded items while totalCount > nextId, the item is
\* dropped from content, recorded as the sole element of removedElements,
\* nextId is decremented by exactly 1 and totalCount is unchanged, so that the
\* dropped item is fetched again by later pagination; in every other
\* successful rename the set of loaded item ids, nextId and totalCount are
\* unchanged and only the target item's name changes.
C17_Rename == C17_RenameDropped /\ C17_Refetched /\ C17_RenameKept

\* C18: the pagination cursor nextId is never negative (the backend only
\* returns next_id >= 0, and 0 when no further page exists).
C18_NextIdNonNegative == nextId >= 0

\* C19: in every reachable state 0 <= content.length <= totalCount (the
\* backend's total_count is at least the number of items it has returned).
C19_LengthWithinTotal == 0 <= Len(content) /\ Len(content) <= totalCount

\* C20: content never contains two items with the same id (the backend
\* returns disjoint pages for distinct cursors).
C20_NoDuplicateIds ==
    \A i, j \in 1 .. Len(content) : content[i].id = content[j].id => i = j

\* the registrations made for the type the latest component() call asked for
RegisteredFor(type) == {i \in 1 .. Len(registered) : registered[i].type = type}

\* C13: component(props) dispatches on data.type alone: it returns what
\* create() of the factory registered under that type returns for data
\* without its type field plus the unchanged getType / onChangeValue; it
\* returns undefined and calls no factory when none is registered for the
\* type; of two factories registered with one type the later is used.
C13_Dispatch ==
    [][ LET regs == RegisteredFor(props'.data.type)
            latest == CHOOSE i \in regs : \A j \in regs : j <= i
        IN  IF regs = {}
            THEN element' = Undefined /\ created' = created
            ELSE /\ element' =
                      [factory |-> registered[latest].name,
                       props |-> [data |-> [value |-> props'.data.value],
                                  getType |-> props'.getType,
                                  onChangeValue |-> props'.onChangeValue]]
                 /\ created' = created + 1
      ]_factoryVars

\* component() answered with the later of two different factories of one type
C13_Witness ==
    /\ element # Undefined
    /\ \E i, j \in RegisteredFor(props.data.type) :
          /\ i < j /\ registered[i].name # registered[j].name
          /\ element.factory = registered[j].name

\* C14: a scroll event makes the list component call onPagination only when
\* withPagination is set, an onPagination callback exists and
\* scrollHeight - (scrollTop + clientHeight) <= 35, and never while the
\* pagination loading flag is true, also when the flag turned true between
\* the scroll event and the firing of the debounced handler.
C14_ScrollPagination ==
    [][ invoked' > invoked =>
            /\ withPagination /\ onPaginationSet
            /\ distance <= 35
            /\ ~loadingFlag
      ]_scrollVars

\* C14 without its clause on the loading flag
C14_ScrollConditions ==
    [][ invoked' > invoked =>
            withPagination /\ onPaginationSet /\ distance <= 35
      ]_scrollVars

ReloadedPage == Page(ServerList(srv, sort), 0)

\* C21: once the reload started by onChangeSort has completed successfully
\* (content is the reloaded first page, no load pending), a pagination
\* response whose request was issued under another sort is not appended to
\* the reloaded list and does not overwrite the reloaded nextId.
C21_NoStalePage ==
    (/\ IsResolve({"pagination"})
     /\ last.req.rsort # last.pre.sort /\ last.pre.sort \in SortInputs
     /\ InFlightOf(InitialKinds) = 0 /\ last.pre.state = Idle
     /\ IdsOf(last.pre.content) = IdsOf(ReloadedPage.data)
     /\ last.pre.nextId = ReloadedPage.next_id) =>
        /\ content = last.pre.content
        /\ nextId = last.pre.nextId

\* s is a prefix of t
IsPrefix(s, t) == Len(s) <= Len(t) /\ SubSeq(t, 1, Len(s)) = s

\* the ids of the backend's current list in the order of the current sort
BackendIds == IdsOf(ServerList(srv, sort))

\* C22: with a backend that returns the page at offset nextId of its current
\* ordered list, the loaded content stays a gap-free prefix of that list: when
\* a page requested for the cursor and sort in force arrives with nothing else
\* in flight (the refill after a removal by id included) and content was such
\* a prefix, it is one afterwards; no backend item is skipped or doubled.
C22_GapFreePrefix ==
    (/\ IsResolve({"pagination"})
     /\ inflight = EmptyBag
     /\ last.req.rsort = sort /\ last.req.cursor = last.pre.nextId
     /\ IsPrefix(IdsOf(last.pre.content), BackendIds)) =>
        IsPrefix(IdsOf(content), BackendIds)


\* every loaded item is selected
AllLoadedSelected == \A i \in 1 .. Len(content) : content[i].selected

\* C23: whenever isSelectAll is true, content is non-empty, every loaded item
\* is selected and selectedCount equals totalCount; isSelectAll is false
\* whenever content is empty or some loaded item is unselected
C23_SelectAllComputed ==
    /\ isSelectAll => /\ Len(content) > 0
                      /\ AllLoadedSelected
                      /\ selectedCount = totalCount
    /\ (Len(content) = 0 \/ ~AllLoadedSelected) => ~isSelectAll


\* the ids and names of a list in order, selection flags left out
OrderOf(cont) == [i \in 1 .. Len(cont) |-> [id |-> cont[i].id, name |-> cont[i].name]]

\* the items a resolved content or pagination request put into content
Fetched == SubSeq(content, Len(content) - Len(last.resp.data) + 1, Len(content))

\* C24: toggleSelectedAll(select) sets the select-all flag and the selected
\* flag of every loaded item to select and leaves content order, totalCount
\* and nextId unchanged; afterwards selectedCount is totalCount when select is
\* true and 0 when it is false; items fetched later receive selected equal to
\* the select-all flag at the time their response is processed, and a
\* pagination response never changes selectedCount
C24_ToggleSelectedAll ==
    /\ last.op = "toggleSelectedAll" =>
           LET select == last.req.mode = "T"
           IN  /\ selectedAll = select
               /\ \A i \in 1 .. Len(content) : content[i].selected = select
               /\ OrderOf(content) = OrderOf(last.pre.content)
               /\ totalCount = last.pre.totalCount
               /\ nextId = last.pre.nextId
               /\ selectedCount = IF select THEN totalCount ELSE 0
    /\ IsResolve({"load", "pagination"}) =>
           /\ OrderOf(Fetched) = OrderOf(last.resp.data)
           /\ \A i \in 1 .. Len(Fetched) : Fetched[i].selected = last.pre.selectedAll
    /\ IsResolve({"pagination"}) => selectedCount = PreCount

\* a page arrives after toggleSelectedAll(true) and after an item was unselected
C24_Witness ==
    /\ IsResolve({"pagination"})
    /\ selectedAll
    /\ Len(last.resp.data) > 0
    /\ NumWhere(last.pre.content, FALSE) > 0
    /\ selectedCount = totalCount - 1


\* C25: onToggleSelected(id, selected) changes only the selected flag of the
\* loaded item with that id (the one findIndex picks); the select-all flag,
\* totalCount, nextId, the content order, all other items and the three
\* loading records are unchanged, and nothing changes when no loaded item has
\* that id
C25_ToggleFrame ==
    last.op = "onToggleSelected" =>
        LET index == findIndex(last.pre.content, last.req.id)
        IN  /\ selectedAll = last.pre.selectedAll
            /\ totalCount = last.pre.totalCount
            /\ nextId = last.pre.nextId
            /\ sort = last.pre.sort
            /\ removedElements = last.pre.removedElements
            /\ state = last.pre.state
            /\ paginationState = last.pre.paginationState
            /\ actionState = last.pre.actionState
            /\ OrderOf(content) = OrderOf(last.pre.content)
            /\ \A i \in 1 .. Len(content) :
                   i # index => content[i] = last.pre.content[i]
            /\ index # 0 => content[index].selected = (last.req.mode = "T")
            /\ index = 0 => content = last.pre.content

\* one of two loaded items is unselected while the select-all flag is set
C25_Witness ==
    /\ last.op = "onToggleSelected"
    /\ selectedAll
    /\ Len(content) >= 2
    /\ content # last.pre.content
    /\ NumWhere(content, FALSE) = 1


\* C26: immediately after any successful remove or move, with or without id,
\* the select-all flag is false, every item then in content is unselected and
\* selectedCount is 0
C26_SelectionReset ==
    IsResolve({"remove", "move"}) =>
        /\ ~selectedAll
        /\ \A i \in 1 .. Len(content) : ~content[i].selected
        /\ selectedCount = 0

\* an item that was selected before the request resolved is still loaded
C26_Witness ==
    /\ IsResolve({"remove", "move"})
    /\ \E i \in 1 .. Len(last.pre.content) :
           /\ last.pre.content[i].selected
           /\ last.pre.content[i].id \in IdSet(content)


\* C27: remove() and move(toDir) called without an id while the select-all
\* flag is false and no loaded item is selected issue no request and leave
\* every state variable, actionState included, unchanged; when the select-all
\* flag is set a request is issued even if the id list is empty
C27_BulkWithoutSelection ==
    [][ (/\ last'.op = "call" /\ last'.req.kind \in {"remove", "move"}
         /\ last'.req.id = None) =>
            /\ (~selectedAll /\ NumWhere(content, TRUE) = 0) =>
                   UNCHANGED <<content, totalCount, nextId, sort, state,
                               paginationState, actionState, selectedAll,
                               removedElements, inflight, srv>>
            /\ selectedAll =>
                   /\ inflight' = Issue(inflight, last'.req)
                   /\ last'.req.mode = "search"
                   /\ actionState'.loading
      ]_vars

\* remove() or move(toDir) was called with items loaded and nothing selected
C27_Witness ==
    /\ last.op = "call" /\ last.req.kind \in {"remove", "move"}
    /\ last.req.id = None /\ ~last.issued
    /\ ~selectedAll /\ Len(content) > 0 /\ NumWhere(content, TRUE) = 0
    /\ Prog = last.pre

\* remove() or move(toDir) went out under select-all with an empty id list
C27_EmptyListIssued ==
    /\ last.op = "call" /\ last.req.kind \in {"remove", "move"}
    /\ last.req.id = None /\ last.issued
    /\ last.pre.selectedAll /\ Len(last.pre.content) > 0 /\ last.req.ids = <<>>


\* ------------------------------------------------------------- settling
\* the continuation of an awaited request runs: one of the steps after an await
SettleRequest ==
    \E req \in BagToSet(inflight) :
        \/ \E e \in Errors : Reject(req, e)
        \/ ResolveLoad(req)
        \/ ResolvePagination(req)
        \/ ResolveRename(req)
        \/ ResolveRemove(req)

\* FileSystemLogic over a backend that settles every request it receives
SpecSettle == Init /\ [][Next]_vars /\ WF_vars(SettleRequest)

\* no loading flag is set
NoneLoading == ~state.loading /\ ~paginationState.loading /\ ~actionState.loading

\* C28: if every issued request eventually resolves or rejects and no further
\* operations are called, then eventually the loading flags of state,
\* paginationState and actionState are all false and stay false
C28_LoadingSettles == <>[]NoneLoading

\* the refill pagination that a resolved remove issued has settled as the last
\* request in flight, and nothing is loading
C28_Witness ==
    /\ last.op \in {"resolve", "reject"} /\ last.req.kind = "pagination"
    /\ last.pre.paginationState.loading
    /\ inflight = EmptyBag
    /\ ops = MaxOps
    /\ NoneLoading


\* the step just taken belongs to a request of one of kinds: its start, its
\* successful completion or its rejection
IsStepOf(kinds) ==
    /\ last.req.kind \in kinds
    /\ \/ last.op = "call" /\ last.issued
       \/ last.op \in {"resolve", "reject"}

\* the own record of each category: a successful completion leaves it
\* {loading: false, error: null}, a start sets loading and keeps the error
C29_OwnRecord ==
    /\ last.op = "resolve" =>
           LoadingOf(last.req.kind) = [loading |-> FALSE, error |-> NoError]
    /\ (last.op = "call" /\ last.issued) =>
           /\ LoadingOf(last.req.kind).loading
           /\ LoadingOf(last.req.kind).error =
                  (IF last.req.kind = "load" THEN last.pre.state
                   ELSE IF last.req.kind = "pagination" THEN last.pre.paginationState
                   ELSE last.pre.actionState).error
    /\ IsStepOf(InitialKinds) =>
           /\ paginationState = last.pre.paginationState
           /\ actionState = last.pre.actionState
    /\ IsStepOf(PaginationKinds) =>
           /\ state = last.pre.state
           /\ actionState = last.pre.actionState
    /\ (IsStepOf(ActionKinds) \/ last.op = "resetActionState") =>
           state = last.pre.state

\* C29: the three loading records are independent: init/onChangeSort loads
\* modify only state, pagination requests only paginationState, and
\* rename/remove/move requests and resetActionState only actionState; a
\* successful completion sets its category's error to null, and starting a
\* request sets loading to true without changing the recorded error
C29_Independent ==
    /\ C29_OwnRecord
    /\ (IsStepOf(ActionKinds) \/ last.op = "resetActionState") =>
           paginationState = last.pre.paginationState

\* a resolved remove or move started the pagination request that refills the list
RefillStarted == IsResolve({"remove", "move"}) /\ last.issued

\* C29 as the code has it: the same, except that a remove or move whose
\* successful completion starts the refill pagination sets
\* paginationState.loading (and leaves paginationState.error as it was)
C29_IndependentButRefill ==
    /\ C29_OwnRecord
    /\ (IsStepOf(ActionKinds) \/ last.op = "resetActionState") =>
           paginationState = IF RefillStarted
                             THEN [loading |-> TRUE,
                                   error |-> last.pre.paginationState.error]
                             ELSE last.pre.paginationState

\* a request starts in a category whose record holds the error of an earlier
\* rejection
C29_Witness ==
    /\ last.op = "call" /\ last.issued
    /\ LoadingOf(last.req.kind) = [loading |-> TRUE, error |-> "E1"]

\* the refill pagination started while a remove or move completed
C29_RefillWitness ==
    /\ RefillStarted
    /\ paginationState.loading /\ ~last.pre.paginationState.loading
    /\ actionState = Idle


\* the scale one step coarser, as the claim lists them
Coarser(scale) ==
    IF scale = "day" THEN "month"
    ELSE IF scale = "hour" THEN "day"
    ELSE IF scale = "minute" THEN "hour" ELSE NoScale

\* the field is at the finest scale of its type
AtFinestScale(f) ==
    \/ f.type \in {"datetime-local", "time"} /\ f.scale = "minute"
    \/ f.type = "date" /\ f.scale = "day"
    \/ f.type = "month" /\ f.scale = "month"
    \/ f.type = "week" /\ f.scale = "week"

\* C30: whenever the previous-scale control is enabled, onChangePrevDataScale
\* fires exactly one callback: onResetDataScale when the scale is month,
\* otherwise onChangeDataScale with the next coarser scale (day to month, hour
\* to day, minute to hour); and onChangeDateScaleDate never fires
\* onChangeDataScale once the field is at the finest scale of its type
C30_ScaleControls ==
    /\ (handler = "onChangePrevDataScale" /\ ~isDisabledPrevControl(field)) =>
           /\ Len(fired) = 1
           /\ IF field.scale = "month"
              THEN fired[1].cb = "onResetDataScale"
              ELSE /\ fired[1].cb = "onChangeDataScale"
                   /\ Coarser(field.scale) # NoScale =>
                          fired[1].scale = Coarser(field.scale)
    /\ (handler = "onChangeDateScaleDate" /\ AtFinestScale(field)) =>
           \A i \in 1 .. Len(fired) : fired[i].cb # "onChangeDataScale"

====
